---- MODULE Spec2Model ----
(***************************************************************************)
(* The virtual-memory core of the kernel: address spaces (region list +    *)
(* two-level page table), the fault handler and the TLB, modelled from     *)
(* kern/vm/vm.c and kern/vm/addrspace.c.                                   *)
(*                                                                         *)
(* A 32-bit word (vaddr_t, size_t) is a record [pg, off] standing for      *)
(* pg * 4096 + off, with pg in 0..2^20-1 and off in 0..4095, so that the   *)
(* arithmetic of the code is exact modulo 2^32.  Physical addresses and    *)
(* page-table entries are below 2^31 and are plain integers.               *)
(***************************************************************************)
EXTENDS Integers, Sequences, FiniteSets, TLC

VARIABLES
    spaces,     \* address-space id -> struct addrspace (or the dead record)
    cur,        \* -1: curproc == NULL; 0: a process with no address space; else its as
    frames,     \* the physical frames alloc_kpages has handed out and not got back
    mem,        \* frame -> its contents (one cell stands for the page's bytes)
    kheap,      \* outstanding kmalloc blocks, by kind
    tlb,        \* TLB slot -> [hi, lo]
    loading,    \* address-space id -> load phase and the flags saved at as_prepare_load
    ev,         \* the last call: its name and its result
    ipl         \* the CPU's interrupt priority level: 0, or IPL_HIGH

vars == <<spaces, cur, frames, mem, kheap, tlb, loading, ev, ipl>>

----------------------------------------------------------------------------
(* Bounds of the model *)

MaxAS == 2          \* address spaces that can be alive at once
MaxFrames == 2      \* physical frames the allocator owns
MaxRegions == 2     \* regions one address space may hold
MaxForkRegions == 1 \* the same, in the specification where processes fork
NumTlbSlots == 1    \* TLB slots modelled
NumFaultTlbSlots == 2 \* the same, in the specification of the fault handler
MaxData == 1        \* a frame's contents range over 0..MaxData

----------------------------------------------------------------------------
(* Machine and kernel constants *)

PAGE_SIZE == 4096
PAGE_COUNT == 1048576           \* 2^32 / PAGE_SIZE
L1_PT_SIZE == 2048
L2_PT_SIZE == 512
KSEG0_PAGE == 524288            \* MIPS_KSEG0 / PAGE_SIZE, also USERSTACK / PAGE_SIZE
TLBLO_DIRTY == 1024
TLBLO_VALID == 512
PF_R == 4
PF_W == 2
PF_X == 1
VM_FAULT_READ == 0
VM_FAULT_WRITE == 1
VM_FAULT_READONLY == 2
ENOMEM == 3
EFAULT == 6
EINVAL == 8

----------------------------------------------------------------------------
(* 32-bit words *)

W(p, o) == [pg |-> p, off |-> o]
Zero32 == W(0, 0)
USERSTACK == W(KSEG0_PAGE, 0)

\* a + b modulo 2^32
Add32(a, b) ==
    LET o == a.off + b.off
    IN  W((a.pg + b.pg + (o \div PAGE_SIZE)) % PAGE_COUNT, o % PAGE_SIZE)

\* a & PAGE_FRAME and a & ~PAGE_FRAME
AndPageFrame(a) == W(a.pg, 0)
AndNotPageFrame(a) == W(0, a.off)

\* unsigned comparisons
Lt32(a, b) == a.pg < b.pg \/ (a.pg = b.pg /\ a.off < b.off)
Ge32(a, b) == ~Lt32(a, b)

\* a >> 21
Shr21(a) == a.pg \div 512

\* a << 11, modulo 2^32: the low 21 bits of a move up by 11
Shl11(a) ==
    LET low21 == (a.pg % 512) * PAGE_SIZE + a.off
    IN  W(low21 \div 2, (low21 % 2) * 2048)

\* a shift right by 21 in the place of the shift by 23
Shr23_by21(a) == a.pg \div 512

\* a >> 23
Shr23(a) == a.pg \div 2048

\* bitwise and / or of non-negative integers (four zero bits at a time where
\* both have them)
RECURSIVE BitAnd(_, _)
BitAnd(x, y) ==
    IF x = 0 \/ y = 0 THEN 0
    ELSE IF x % 16 = 0 /\ y % 16 = 0 THEN 16 * BitAnd(x \div 16, y \div 16)
    ELSE (x % 2) * (y % 2) + 2 * BitAnd(x \div 2, y \div 2)

RECURSIVE BitOr(_, _)
BitOr(x, y) ==
    IF x = 0 THEN y
    ELSE IF y = 0 THEN x
    ELSE IF x % 16 = 0 /\ y % 16 = 0 THEN 16 * BitOr(x \div 16, y \div 16)
    ELSE (IF x % 2 = 1 \/ y % 2 = 1 THEN 1 ELSE 0) + 2 * BitOr(x \div 2, y \div 2)

\* entry & PAGE_FRAME for a physical address or a page-table entry
PaddrFrame(e) == (e \div PAGE_SIZE) * PAGE_SIZE

\* the direct-mapped window: kvaddr = paddr + MIPS_KSEG0
PADDR_TO_KVADDR(p) == W(KSEG0_PAGE + (p \div PAGE_SIZE), p % PAGE_SIZE)
KVADDR_TO_PADDR(kv) == (kv.pg - KSEG0_PAGE) * PAGE_SIZE + kv.off

----------------------------------------------------------------------------
(* Inputs the model draws *)

\* fault addresses: 0, 0x00400010, 0x00401abc
FaultAddrs == {Zero32, W(1024, 16), W(1025, 2748)}

\* the L1 and L2 slots the model tracks: those a fault address can reach, and
\* the last slot of an L2 array.  Every other slot of a table stays empty.
L1Idx == {Shr21(AndPageFrame(a)) : a \in FaultAddrs \ {Zero32}}
L2Idx == {Shr23(Shl11(AndPageFrame(a))) : a \in FaultAddrs \ {Zero32}} \cup {L2_PT_SIZE - 1}

ASIds == 1..MaxAS
FramePool == 1..MaxFrames
TlbSlots == 0..(NumTlbSlots - 1)
FaultTlbSlots == 0..(NumFaultTlbSlots - 1)

\* ascending sequence of a finite set of integers
RECURSIVE SortedSeq(_)
SortedSeq(S) ==
    IF S = {} THEN <<>>
    ELSE LET m == CHOOSE x \in S : \A y \in S : x <= y
         IN  <<m>> \o SortedSeq(S \ {m})

L1Seq == SortedSeq(L1Idx)
L2Seq == SortedSeq(L2Idx)

----------------------------------------------------------------------------
(* The allocators.  k is the kernel state a call threads through:           *)
(*   frames, mem, kheap as the variables; budget: how many allocations      *)
(*   still succeed during this call (alloc_kpages also fails when no frame  *)
(*   is free); freed: frames this call freed; bad: frames this call freed that *)
(*   were not allocated at that moment; stale: what a read of a frame that  *)
(*   is not allocated returns.  The contents of a free frame are the        *)
(*   allocator's: mem keeps 0 for them and a read returns stale.            *)

NullL2 == <<>>
ZeroL2 == [l \in L2Idx |-> 0]
EmptyPT == [m \in L1Idx |-> NullL2]

FreeFrames(k) == FramePool \ k.frames

\* alloc_kpages(1): a kernel virtual address, or 0.  The allocator hands out
\* the lowest free frame, with whatever it held before (stale).
alloc_kpages(k) ==
    IF k.budget = 0 \/ FreeFrames(k) = {}
    THEN [kv |-> Zero32, k |-> k]
    ELSE LET f == CHOOSE x \in FreeFrames(k) : \A y \in FreeFrames(k) : x <= y
         IN  [kv |-> PADDR_TO_KVADDR(f * PAGE_SIZE),
              k  |-> [k EXCEPT !.frames = @ \cup {f}, !.budget = @ - 1,
                               !.mem[f] = k.stale]]

free_kpages(k, kv) ==
    LET f == KVADDR_TO_PADDR(kv) \div PAGE_SIZE
    IN  IF f \in k.frames
        THEN [k EXCEPT !.frames = @ \ {f}, !.freed = @ \cup {f}, !.mem[f] = 0]
        ELSE [k EXCEPT !.bad = @ \cup {f}]

\* kmalloc of one block of the given kind: ok is FALSE when it returns NULL
kmalloc(k, kind) ==
    IF k.budget = 0
    THEN [ok |-> FALSE, k |-> k]
    ELSE [ok |-> TRUE, k |-> [k EXCEPT !.kheap[kind] = @ + 1, !.budget = @ - 1]]

kfree(k, kind) == [k EXCEPT !.kheap[kind] = @ - 1]

\* a bzero that leaves the page as it is
bzero_page_skip(k, kv) == k

\* bzero((void *)kv, PAGE_SIZE)
bzero_page(k, kv) ==
    [k EXCEPT !.mem[KVADDR_TO_PADDR(kv) \div PAGE_SIZE] = 0]

\* memmove(dst, src, PAGE_SIZE) between two frames
memmove_page(k, dst, src) ==
    LET d == KVADDR_TO_PADDR(dst) \div PAGE_SIZE
        s == KVADDR_TO_PADDR(src) \div PAGE_SIZE
    IN  [k EXCEPT !.mem[d] = IF s \in k.frames THEN k.mem[s] ELSE k.stale]

----------------------------------------------------------------------------
(* Page table *)

\* KASSERT(msb < 0xFFFFF800) of create_pt_l2
kassert_msb(msb) == Lt32(W(msb \div PAGE_SIZE, msb % PAGE_SIZE), W(PAGE_COUNT - 1, 2048))

create_pt_l2(pt, msb, k) ==
    IF pt[msb] # NullL2 THEN [res |-> EINVAL, pt |-> pt, k |-> k]
    ELSE LET a == kmalloc(k, "l2")
         IN  IF ~a.ok THEN [res |-> ENOMEM, pt |-> pt, k |-> k]
             ELSE [res |-> 0, pt |-> [pt EXCEPT ![msb] = ZeroL2], k |-> a.k]

create_pte(pt, msb, lsb, dirty, k) ==
    LET l2 == IF pt[msb] = NullL2 THEN create_pt_l2(pt, msb, k)
              ELSE [res |-> 0, pt |-> pt, k |-> k]
    IN  IF l2.res # 0 THEN l2
        ELSE IF l2.pt[msb][lsb] # 0 THEN [res |-> EINVAL, pt |-> l2.pt, k |-> l2.k]
        ELSE LET a == alloc_kpages(l2.k)
             IN  IF a.kv = Zero32 THEN [res |-> ENOMEM, pt |-> l2.pt, k |-> l2.k]
                 ELSE LET physical_base == KVADDR_TO_PADDR(a.kv)
                      IN  [res |-> 0,
                           pt  |-> [l2.pt EXCEPT ![msb][lsb] =
                                      BitOr(BitOr(PaddrFrame(physical_base), dirty), TLBLO_VALID)],
                           k   |-> bzero_page(a.k, a.kv)]

\* (a slot the model does not track is empty)
pte_exists(pt, msb, lsb) ==
    IF msb \notin L1Idx \/ pt[msb] = NullL2 THEN FALSE
    ELSE lsb \in L2Idx /\ pt[msb][lsb] # 0

\* the inner loop of destroy_pt over one L2 array, from position i of L2Seq
RECURSIVE destroy_l2(_, _, _)
destroy_l2(l2, i, k) ==
    IF i > Len(L2Seq) THEN k
    ELSE LET e == l2[L2Seq[i]]
         IN  destroy_l2(l2, i + 1,
                 IF e # 0 THEN free_kpages(k, PADDR_TO_KVADDR(PaddrFrame(e))) ELSE k)

\* the outer loop of destroy_pt, from position i of L1Seq
RECURSIVE destroy_l1(_, _, _)
destroy_l1(pt, i, k) ==
    IF i > Len(L1Seq) THEN k
    ELSE LET msb == L1Seq[i]
         IN  destroy_l1(pt, i + 1,
                 IF pt[msb] # NullL2 THEN kfree(destroy_l2(pt[msb], 1, k), "l2") ELSE k)

destroy_pt(pt, k) == kfree(destroy_l1(pt, 1, k), "l1")

\* the inner loop of copy_pt over L2 array msb, from position i of L2Seq.
\* c is [res, pt, k]: pt is pt_copy.
RECURSIVE copy_l2(_, _, _, _)
copy_l2(pt_original, msb, i, c) ==
    IF i > Len(L2Seq) THEN c
    ELSE LET lsb == L2Seq[i]
             e   == pt_original[msb][lsb]
             pt1 == [c.pt EXCEPT ![msb][lsb] = e]
         IN  IF e = 0 THEN copy_l2(pt_original, msb, i + 1, [c EXCEPT !.pt = pt1])
             ELSE LET a == alloc_kpages(c.k)
                  IN  IF a.kv = Zero32 THEN [res |-> ENOMEM, pt |-> pt1, k |-> c.k]
                      ELSE LET k1 == memmove_page(bzero_page(a.k, a.kv), a.kv,
                                         PADDR_TO_KVADDR(PaddrFrame(e)))
                               dirty == BitAnd(e, TLBLO_DIRTY)
                               ne == BitOr(BitOr(PaddrFrame(KVADDR_TO_PADDR(a.kv)), dirty),
                                           TLBLO_VALID)
                           IN  copy_l2(pt_original, msb, i + 1,
                                   [res |-> 0, pt |-> [c.pt EXCEPT ![msb][lsb] = ne], k |-> k1])

\* the outer loop of copy_pt, from position i of L1Seq.  junk is what a block
\* fresh from kmalloc holds.
RECURSIVE copy_l1(_, _, _, _)
copy_l1(pt_original, i, junk, c) ==
    IF i > Len(L1Seq) THEN c
    ELSE LET msb == L1Seq[i]
         IN  IF pt_original[msb] = NullL2 THEN copy_l1(pt_original, i + 1, junk, c)
             ELSE LET a == kmalloc(c.k, "l2")
                  IN  IF ~a.ok THEN [res |-> ENOMEM, pt |-> [c.pt EXCEPT ![msb] = NullL2], k |-> c.k]
                      ELSE LET d == copy_l2(pt_original, msb, 1,
                                       [res |-> 0, pt |-> [c.pt EXCEPT ![msb] = junk], k |-> a.k])
                           IN  IF d.res # 0 THEN d
                               ELSE copy_l1(pt_original, i + 1, junk, d)

\* copy_pt(pt_original, pt_copy): both roots exist when as_copy calls it
copy_pt(pt_original, pt_copy, junk, k) ==
    copy_l1(pt_original, 1, junk, [res |-> 0, pt |-> pt_copy, k |-> k])

----------------------------------------------------------------------------
(* Address spaces *)

DeadAS == [live |-> FALSE, regions |-> <<>>, pagetable |-> EmptyPT, stackbase |-> Zero32]

\* as_create: [ok, as, k]
as_create(k) ==
    LET a == kmalloc(k, "as")
    IN  IF ~a.ok THEN [ok |-> FALSE, as |-> DeadAS, k |-> k]
        ELSE LET b == kmalloc(a.k, "l1")
             IN  IF ~b.ok THEN [ok |-> FALSE, as |-> DeadAS, k |-> kfree(a.k, "as")]
                 ELSE [ok |-> TRUE,
                       as |-> [live |-> TRUE, regions |-> <<>>, pagetable |-> EmptyPT,
                               stackbase |-> USERSTACK],
                       k  |-> b.k]

\* the loop of as_destroy that frees the region nodes
RECURSIVE free_regions(_, _)
free_regions(regions, k) ==
    IF regions = <<>> THEN k
    ELSE free_regions(Tail(regions), kfree(k, "region"))

\* as_destroy(as) for a non-null as: the kernel state after it
as_destroy(as, k) ==
    kfree(destroy_pt(as.pagetable, free_regions(as.regions, k)), "as")

\* a region loop of as_copy that links each new node in front of the list
RECURSIVE copy_regions_front(_, _, _)
copy_regions_front(old, i, c) ==
    IF i > Len(old) THEN c
    ELSE LET a == kmalloc(c.k, "region")
         IN  IF ~a.ok THEN [ok |-> FALSE, regions |-> c.regions, k |-> c.k]
             ELSE copy_regions_front(old, i + 1,
                      [ok |-> TRUE, regions |-> <<old[i]>> \o c.regions, k |-> a.k])

\* the region loop of as_copy, from position i of the old list: [ok, regions, k]
RECURSIVE copy_regions(_, _, _)
copy_regions(old, i, c) ==
    IF i > Len(old) THEN c
    ELSE LET a == kmalloc(c.k, "region")
         IN  IF ~a.ok THEN [ok |-> FALSE, regions |-> c.regions, k |-> c.k]
             ELSE copy_regions(old, i + 1,
                      [ok |-> TRUE,
                       regions |-> Append(c.regions,
                           [as_vbase |-> old[i].as_vbase, size |-> old[i].size,
                            flags |-> old[i].flags, og_flags |-> old[i].og_flags]),
                       k |-> a.k])

\* as_copy(old, ret): [res, set, as, k]; set says whether *ret was assigned
as_copy(old, junk, k) ==
    LET n == as_create(k)
    IN  IF ~n.ok THEN [res |-> ENOMEM, set |-> FALSE, as |-> DeadAS, k |-> k]
        ELSE LET newas0 == [n.as EXCEPT !.stackbase = old.stackbase]
                 r == copy_regions(old.regions, 1, [ok |-> TRUE, regions |-> <<>>, k |-> n.k])
                 newas1 == [newas0 EXCEPT !.regions = r.regions]
             IN  IF ~r.ok
                 THEN [res |-> ENOMEM, set |-> FALSE, as |-> DeadAS, k |-> as_destroy(newas1, r.k)]
                 ELSE LET p == copy_pt(old.pagetable, newas1.pagetable, junk, r.k)
                          newas2 == [newas1 EXCEPT !.pagetable = p.pt]
                      IN  IF p.res # 0
                          THEN [res |-> p.res, set |-> FALSE, as |-> DeadAS,
                                k |-> as_destroy(newas2, p.k)]
                          ELSE [res |-> 0, set |-> TRUE, as |-> newas2, k |-> p.k]

\* as_define_region(as, vaddr, memsize, readable, writeable, executable): [res, as, k]
as_define_region(as, vaddr0, memsize0, readable, writeable, executable, k) ==
    LET memsize1 == Add32(memsize0, AndNotPageFrame(vaddr0))
        vaddr    == AndPageFrame(vaddr0)
        memsize  == AndPageFrame(Add32(memsize1, W(0, PAGE_SIZE - 1)))
        a        == kmalloc(k, "region")
        flags    == BitOr(BitOr(readable, writeable), executable)
        new_region == [as_vbase |-> vaddr, size |-> memsize,
                       flags |-> flags, og_flags |-> flags]
    IN  IF ~a.ok THEN [res |-> ENOMEM, as |-> as, k |-> k]
        ELSE [res |-> 0, as |-> [as EXCEPT !.regions = <<new_region>> \o @], k |-> a.k]

\* the loop of as_prepare_load
prepare_regions(regions) ==
    [i \in DOMAIN regions |->
        [regions[i] EXCEPT !.og_flags = regions[i].flags, !.flags = BitOr(PF_W, PF_R)]]

\* an as_complete_load loop that takes write permission away and restores
\* nothing else
complete_regions_dropw(regions) ==
    [i \in DOMAIN regions |->
        [regions[i] EXCEPT !.flags = regions[i].flags - BitAnd(regions[i].flags, PF_W)]]

\* the loop of as_complete_load
complete_regions(regions) ==
    [i \in DOMAIN regions |-> [regions[i] EXCEPT !.flags = regions[i].og_flags]]

----------------------------------------------------------------------------
(* TLB *)

TLBHI_INVALID(i) == W(KSEG0_PAGE + i, 0)
TLBLO_INVALID == 0

curproc == cur # -1
proc_getas == IF cur > 0 THEN cur ELSE 0

\* splhigh() raises the interrupt priority level (and returns the old one,
\* which callers read from k.ipl before the call)
IPL_HIGH == 1
splhigh(k) == [k EXCEPT !.ipl = IPL_HIGH]

\* an splx that leaves the level as it is
splx_keep(k, spl) == k

\* splx(spl) sets the level back to spl
splx(k, spl) == [k EXCEPT !.ipl = spl]

\* k.log is the order of what a call has done so far: a page-table update
\* ("pt") or a TLB write ("tlb"), and the level it was done at
Did(k, what) == [k EXCEPT !.log = Append(@, [what |-> what, ipl |-> k.ipl])]

\* an as_activate that writes the tag of slot 0 into every slot
as_activate_onetag(as, t) ==
    IF as = 0 THEN t
    ELSE [i \in DOMAIN t |-> [hi |-> TLBHI_INVALID(0), lo |-> TLBLO_INVALID]]

\* as_activate(): the TLB after it; as is what proc_getas() returned.  The
\* loop runs over every slot of the TLB.
as_activate(as, t) ==
    IF as = 0 THEN t
    ELSE [i \in DOMAIN t |-> [hi |-> TLBHI_INVALID(i), lo |-> TLBLO_INVALID]]

as_deactivate(as, t) == as_activate(as, t)

\* the tlb_write loop of as_activate, one write after the other
RECURSIVE tlb_write_loop(_, _)
tlb_write_loop(k, n) == IF n = 0 THEN k ELSE tlb_write_loop(Did(k, "tlb"), n - 1)

\* as_activate(): the interrupt level and the TLB writes of the call
as_activate_spl(as, k, nslots) ==
    IF as = 0 THEN k
    ELSE LET spl == k.ipl
         IN  splx(tlb_write_loop(splhigh(k), nslots), spl)

as_deactivate_spl(as, k, nslots) == as_activate_spl(as, k, nslots)

\* tlb_random(hi, lo): the hardware picks the slot
tlb_random(t, slot, hi, lo) == [t EXCEPT ![slot] = [hi |-> hi, lo |-> lo]]

----------------------------------------------------------------------------
(* Fault handler *)

\* a region loop that takes the first region without looking at the address
find_region_first(regions, i, faultaddress) ==
    IF i > Len(regions) THEN 0 ELSE i

\* the region loop of vm_fault: the index of the first region holding
\* faultaddress, or 0 when the loop ends with curr == NULL
RECURSIVE find_region(_, _, _)
find_region(regions, i, faultaddress) ==
    IF i > Len(regions) THEN 0
    ELSE IF Lt32(faultaddress, Add32(regions[i].as_vbase, regions[i].size))
            /\ Ge32(faultaddress, regions[i].as_vbase)
         THEN i
         ELSE find_region(regions, i + 1, faultaddress)

\* a vm_fault ending that loads the TLB before it looks at create_pte's result
vm_fault_load_first(result, as, k, msb, lsb, slot, faultaddress) ==
    [res |-> result, as |-> as, k |-> k,
     tlb |-> tlb_random(tlb, slot, AndPageFrame(faultaddress),
                        IF result # 0 THEN TLBLO_INVALID ELSE as.pagetable[msb][lsb])]

\* the end of vm_fault: return create_pte's error, or load the entry in the TLB
vm_fault_load(result, as, k, msb, lsb, slot, faultaddress) ==
    IF result # 0 THEN [res |-> result, as |-> as, k |-> k, tlb |-> tlb]
    ELSE LET entry_hi == AndPageFrame(faultaddress)
             entry_lo == as.pagetable[msb][lsb]
             spl == k.ipl
             k1 == Did(splhigh(k), "tlb")
         IN  [res |-> 0, as |-> as, k |-> splx(k1, spl),
              tlb |-> tlb_random(tlb, slot, entry_hi, entry_lo)]

\* vm_fault(faulttype, faultaddress): [res, as, k, tlb]; as is the current
\* address space after the call (DeadAS when there is none)
vm_fault(faulttype, faultaddress0, slot, k) ==
    LET asid == proc_getas
        as == IF asid = 0 THEN DeadAS ELSE spaces[asid]
        fail(e) == [res |-> e, as |-> as, k |-> k, tlb |-> tlb]
        faultaddress == AndPageFrame(faultaddress0)
        msb == Shr21(faultaddress)
        lsb == Shr23(Shl11(faultaddress))
    IN  IF faulttype = VM_FAULT_READONLY THEN fail(EFAULT)
        ELSE IF faulttype \notin {VM_FAULT_READ, VM_FAULT_WRITE} THEN fail(EINVAL)
        ELSE IF faultaddress0 = Zero32 THEN fail(EFAULT)
        ELSE IF ~curproc THEN fail(EFAULT)
        ELSE IF asid = 0 THEN fail(EFAULT)
        ELSE IF as.regions = <<>> THEN fail(EFAULT)
        ELSE IF ~pte_exists(as.pagetable, msb, lsb)
        THEN LET curr == find_region(as.regions, 1, faultaddress)
                 writable == curr # 0 /\ BitAnd(as.regions[curr].flags, PF_W) = PF_W
                 dirty == IF writable THEN TLBLO_DIRTY ELSE 0
             IN  IF curr = 0 THEN fail(EFAULT)
                 ELSE IF ~writable /\ faulttype = VM_FAULT_WRITE THEN fail(EFAULT)
                 ELSE LET c == create_pte(as.pagetable, msb, lsb, dirty, k)
                          as1 == [as EXCEPT !.pagetable = c.pt]
                          k1 == IF c.pt = as.pagetable THEN c.k ELSE Did(c.k, "pt")
                      IN  vm_fault_load(c.res, as1, k1, msb, lsb, slot, faultaddress)
        ELSE vm_fault_load(0, as, k, msb, lsb, slot, faultaddress)

----------------------------------------------------------------------------
(* The state machine *)

NoLoad == [phase |-> "none", snap |-> <<>>]

\* op: the call; res: its return value (as_create: 0, or ENOMEM for NULL)
Ev(op, res) == [op |-> op, res |-> res]

\* the kernel state at the start of a call
K0(budget) ==
    [frames |-> frames, mem |-> mem, kheap |-> kheap, budget |-> budget,
     freed |-> {}, bad |-> {}, stale |-> 0, ipl |-> ipl, log |-> <<>>]

Commit(k) ==
    /\ frames' = k.frames
    /\ mem' = k.mem
    /\ kheap' = k.kheap

\* the most allocations one call makes (as_copy of the largest address space)
MaxAllocs == 2 + MaxRegions + Cardinality(L1Idx) + MaxFrames
FaultTypes == {VM_FAULT_READ, VM_FAULT_WRITE, VM_FAULT_READONLY, 3}

\* what a word of a block fresh from kmalloc may hold
JunkVals == {0} \cup {f * PAGE_SIZE + TLBLO_VALID : f \in FramePool}

Live == {a \in ASIds : spaces[a].live}
Dead == ASIds \ Live
FirstDead == CHOOSE a \in Dead : \A b \in Dead : a <= b

Init ==
    /\ spaces = [a \in ASIds |-> DeadAS]
    /\ cur = -1
    /\ frames = {}
    /\ mem = [f \in FramePool |-> 0]
    /\ kheap = [as |-> 0, l1 |-> 0, l2 |-> 0, region |-> 0]
    /\ tlb = [i \in TlbSlots |-> [hi |-> TLBHI_INVALID(i), lo |-> TLBLO_INVALID]]
    /\ loading = [a \in ASIds |-> NoLoad]
    /\ ev = Ev("boot", 0)
    /\ ipl = 0

AsCreate(budget) ==
    /\ curproc
    /\ Dead # {}
    /\ LET r == as_create(K0(budget))
       IN  /\ Commit(r.k)
           /\ spaces' = IF r.ok THEN [spaces EXCEPT ![FirstDead] = r.as] ELSE spaces
           /\ ev' = Ev("as_create", IF r.ok THEN 0 ELSE ENOMEM)
    /\ UNCHANGED <<cur, tlb, loading, ipl>>

AsDefineRegion(a, vaddr, memsize, readable, writeable, executable, budget) ==
    /\ curproc
    /\ a \in Live
    /\ LET r == as_define_region(spaces[a], vaddr, memsize, readable, writeable,
                                 executable, K0(budget))
       IN  /\ Commit(r.k)
           /\ spaces' = [spaces EXCEPT ![a] = r.as]
           /\ ev' = Ev("as_define_region", r.res)
    /\ UNCHANGED <<cur, tlb, loading, ipl>>

AsPrepareLoad(a) ==
    /\ curproc
    /\ a \in Live
    /\ spaces' = [spaces EXCEPT ![a].regions = prepare_regions(@)]
    /\ loading' = [loading EXCEPT ![a] =
                      [phase |-> "loading",
                       snap |-> [i \in DOMAIN spaces[a].regions |-> spaces[a].regions[i].flags]]]
    /\ ev' = Ev("as_prepare_load", 0)
    /\ UNCHANGED <<cur, frames, mem, kheap, tlb, ipl>>

AsCompleteLoad(a) ==
    /\ curproc
    /\ a \in Live
    /\ spaces' = [spaces EXCEPT ![a].regions = complete_regions(@)]
    /\ tlb' = as_deactivate(proc_getas, tlb)
    /\ ipl' = as_deactivate_spl(proc_getas, K0(0), Cardinality(DOMAIN tlb)).ipl
    /\ loading' = [loading EXCEPT ![a] =
                      IF @.phase = "loading" THEN [@ EXCEPT !.phase = "done"]
                      ELSE @]
    /\ ev' = Ev("as_complete_load", 0)
    /\ UNCHANGED <<cur, frames, mem, kheap>>

\* as_complete_load(NULL)
AsCompleteLoadNull ==
    /\ curproc
    /\ ev' = Ev("as_complete_load", EFAULT)
    /\ UNCHANGED <<spaces, cur, frames, mem, kheap, tlb, loading, ipl>>

VmFault(faulttype, faultaddress, slot, budget) ==
    \E g \in 0..MaxData :
        LET r == vm_fault(faulttype, faultaddress, slot, [K0(budget) EXCEPT !.stale = g])
            a == proc_getas
        IN  /\ Commit(r.k)
            /\ spaces' = IF a = 0 THEN spaces ELSE [spaces EXCEPT ![a] = r.as]
            /\ tlb' = r.tlb
            /\ ev' = Ev("vm_fault", r.res)
            /\ ipl' = r.k.ipl
            /\ UNCHANGED <<cur, loading>>

\* the allocations a call makes when none is refused: a smaller budget makes
\* one of them fail, a larger one changes nothing
CopyAllocs(old) == MaxAllocs - as_copy(spaces[old], ZeroL2, K0(MaxAllocs)).k.budget
FaultAllocs(t, fa) == 2 - vm_fault(t, fa, 0, K0(2)).k.budget

\* the junk that can show: none unless as_copy fails once copy_pt has started
JunkNow(old, budget) ==
    IF budget < 2 + Len(spaces[old].regions)
       \/ as_copy(spaces[old], ZeroL2, K0(budget)).set
    THEN {0} ELSE JunkVals

\* the frames the page table names
PtFrames(pt) ==
    {pt[m][l] \div PAGE_SIZE : m \in {x \in L1Idx : pt[x] # NullL2}, l \in L2Idx} \ {0}

\* what reads of free frames can return: nothing to choose unless old names one
StaleNow(old) ==
    IF PtFrames(spaces[old].pagetable) \subseteq frames THEN {0} ELSE 0..MaxData

AsCopy(old, budget, j, stale) ==
    /\ curproc
    /\ old \in Live
    /\ LET r == as_copy(spaces[old], [l \in L2Idx |-> j],
                        [K0(budget) EXCEPT !.stale = stale])
       IN  /\ r.set => (Dead # {} /\ j = 0)
           /\ Commit(r.k)
           /\ spaces' = IF r.set THEN [spaces EXCEPT ![FirstDead] = r.as] ELSE spaces
           /\ ev' = Ev("as_copy", r.res)
    /\ UNCHANGED <<cur, tlb, loading, ipl>>

AsDestroy(a) ==
    /\ curproc
    /\ a \in Live
    /\ a # cur
    /\ LET k == as_destroy(spaces[a], K0(0))
       IN  /\ Commit(k)
           /\ ev' = Ev("as_destroy", 0)
    /\ spaces' = [spaces EXCEPT ![a] = DeadAS]
    /\ loading' = [loading EXCEPT ![a] = NoLoad]
    /\ UNCHANGED <<cur, tlb, ipl>>

AsActivate ==
    /\ curproc
    /\ tlb' = as_activate(proc_getas, tlb)
    /\ ipl' = as_activate_spl(proc_getas, K0(0), Cardinality(DOMAIN tlb)).ipl
    /\ ev' = Ev("as_activate", 0)
    /\ UNCHANGED <<spaces, cur, frames, mem, kheap, loading>>

AsDeactivate ==
    /\ curproc
    /\ tlb' = as_deactivate(proc_getas, tlb)
    /\ ipl' = as_deactivate_spl(proc_getas, K0(0), Cardinality(DOMAIN tlb)).ipl
    /\ ev' = Ev("as_deactivate", 0)
    /\ UNCHANGED <<spaces, cur, frames, mem, kheap, loading>>

\* The rest of the kernel makes p the running process's address space
\* (proc_setas, or a thread switch) and then calls as_activate().
ProcSwitch(p) ==
    /\ p \in Live \cup {0}
    /\ p # cur
    /\ cur' = p
    /\ tlb' = as_activate(p, tlb)
    /\ ipl' = as_activate_spl(p, K0(0), Cardinality(DOMAIN tlb)).ipl
    /\ ev' = Ev("switch", 0)
    /\ UNCHANGED <<spaces, frames, mem, kheap, loading>>

\* The running process (or the loader on its behalf) stores to a page through
\* a valid, writable TLB entry.  A store that lands in a free frame changes
\* memory that is the allocator's.
UserStore(vaddr, v) ==
    /\ cur > 0
    /\ \E i \in TlbSlots :
         /\ tlb[i].hi = AndPageFrame(vaddr)
         /\ BitAnd(tlb[i].lo, TLBLO_VALID) = TLBLO_VALID
         /\ BitAnd(tlb[i].lo, TLBLO_DIRTY) = TLBLO_DIRTY
         /\ LET f == tlb[i].lo \div PAGE_SIZE
            IN  mem' = IF f \in frames THEN [mem EXCEPT ![f] = v] ELSE mem
    /\ ev' = Ev("store", 0)
    /\ UNCHANGED <<spaces, cur, frames, kheap, tlb, loading, ipl>>

\* as_define_region calls of the main specification:
\*   0x00400000, 0x1000, R-X   and   0x00400abc, 0x1000, RW-
DefineInputs ==
    { [vaddr |-> W(1024, 0), memsize |-> W(1, 0), r |-> PF_R, w |-> 0, x |-> PF_X],
      [vaddr |-> W(1024, 2748), memsize |-> W(1, 0), r |-> PF_R, w |-> PF_W, x |-> 0] }

\* the address spaces that may still get a region, under a bound
Room(n) == {a \in Live : Len(spaces[a].regions) < n}

\* Spec: processes are created, fault their pages in, store to them, fork
\* (while there is room for one more process) and exit; any allocation may fail.
Next ==
    \/ \E b \in 0..2 : AsCreate(b)
    \/ \E a \in Room(MaxForkRegions), d \in DefineInputs, b \in 0..1 :
          AsDefineRegion(a, d.vaddr, d.memsize, d.r, d.w, d.x, b)
    \/ \E t \in {VM_FAULT_READ, VM_FAULT_WRITE}, fa \in FaultAddrs \ {Zero32}, i \in TlbSlots :
          \E b \in 0..FaultAllocs(t, fa) : VmFault(t, fa, i, b)
    \/ \E a \in Live :
          /\ Dead # {}
          /\ \E b \in 0..CopyAllocs(a) :
                \E j \in JunkNow(a, b), g \in StaleNow(a) : AsCopy(a, b, j, g)
    \/ \E a \in ASIds : AsDestroy(a)
    \/ \E p \in ASIds \cup {0} : ProcSwitch(p)
    \/ \E fa \in FaultAddrs, v \in 0..MaxData : UserStore(fa, v)

Spec == Init /\ [][Next]_vars

\* SpecFault: one process and every way vm_fault can be called and can fail,
\* on a TLB of NumFaultTlbSlots slots.
InitFault ==
    /\ spaces = [a \in ASIds |-> DeadAS]
    /\ cur = -1
    /\ frames = {}
    /\ mem = [f \in FramePool |-> 0]
    /\ kheap = [as |-> 0, l1 |-> 0, l2 |-> 0, region |-> 0]
    /\ tlb = [i \in FaultTlbSlots |-> [hi |-> TLBHI_INVALID(i), lo |-> TLBLO_INVALID]]
    /\ loading = [a \in ASIds |-> NoLoad]
    /\ ev = Ev("boot", 0)
    /\ ipl = 0

NextFault ==
    \/ Live = {} /\ \E b \in 0..2 : AsCreate(b)
    \/ \E a \in Room(MaxRegions), d \in DefineInputs, b \in 0..1 :
          AsDefineRegion(a, d.vaddr, d.memsize, d.r, d.w, d.x, b)
    \/ \E t \in FaultTypes, fa \in FaultAddrs, i \in FaultTlbSlots :
          \E b \in 0..FaultAllocs(t, fa) : VmFault(t, fa, i, b)
    \/ \E a \in ASIds : AsDestroy(a)
    \/ \E p \in ASIds \cup {0} : ProcSwitch(p)
    \/ AsActivate
    \/ AsDeactivate

SpecFault == InitFault /\ [][NextFault]_vars

\* SpecLoad: process 1 loads a program image into its address space
\* (as_prepare_load, faults, as_complete_load) and may fork while the load is
\* on; the child does not run.  An allocation fails only when no frame is free.
NextLoad ==
    \/ Live = {} /\ AsCreate(2)
    \/ \E a \in Room(MaxRegions) \cap {cur}, d \in DefineInputs :
          AsDefineRegion(a, d.vaddr, d.memsize, d.r, d.w, d.x, 1)
    \/ \E a \in {cur} : AsPrepareLoad(a)
    \/ \E a \in {cur} : AsCompleteLoad(a)
    \/ \E t \in {VM_FAULT_READ, VM_FAULT_WRITE}, fa \in FaultAddrs \ {Zero32}, i \in TlbSlots :
          VmFault(t, fa, i, 2)
    \/ \E a \in Live \cap {cur} :
          /\ loading[a].phase = "loading"
          /\ \E j \in JunkNow(a, MaxAllocs), g \in StaleNow(a) : AsCopy(a, MaxAllocs, j, g)
    \/ \E a \in ASIds : AsDestroy(a)
    \/ \E p \in {0, 1} : ProcSwitch(p)

SpecLoad == Init /\ [][NextLoad]_vars

\* SpecOverlap: a process defines regions that overlap, faults, forks, and
\* parent and child both run.  An allocation fails only when no frame is free.
NextOverlap ==
    \/ Live = {} /\ AsCreate(2)
    \/ \E a \in Room(MaxRegions) \cap {cur}, d \in DefineInputs :
          AsDefineRegion(a, d.vaddr, d.memsize, d.r, d.w, d.x, 1)
    \/ \E t \in {VM_FAULT_READ, VM_FAULT_WRITE}, fa \in FaultAddrs \ {Zero32}, i \in TlbSlots :
          VmFault(t, fa, i, 2)
    \/ \E a \in Live \cap {cur} :
          /\ Dead # {}
          /\ \E j \in JunkNow(a, MaxAllocs), g \in StaleNow(a) : AsCopy(a, MaxAllocs, j, g)
    \/ \E a \in ASIds : AsDestroy(a)
    \/ \E p \in ASIds \cup {0} : ProcSwitch(p)

SpecOverlap == Init /\ [][NextOverlap]_vars

\* fault addresses over the 32-bit range: the first and last byte of pages at
\* the edges of L2 arrays, of the user range and of the address space, and the
\* addresses of FaultAddrs
WidePages ==
    {0, 1, L2_PT_SIZE - 1, L2_PT_SIZE, 1024, 1025, 1026, KSEG0_PAGE - 1, KSEG0_PAGE,
     PAGE_COUNT - L2_PT_SIZE - 1, PAGE_COUNT - L2_PT_SIZE, PAGE_COUNT - 1}
WideFaultAddrs ==
    {W(p, o) : p \in WidePages, o \in {0, PAGE_SIZE - 1}} \cup (FaultAddrs \ {Zero32})

\* SpecIndex: one process takes faults anywhere in the 32-bit range.
NextIndex ==
    \/ Live = {} /\ AsCreate(2)
    \/ \E a \in Room(MaxRegions) \cap {cur}, d \in DefineInputs :
          AsDefineRegion(a, d.vaddr, d.memsize, d.r, d.w, d.x, 1)
    \/ \E t \in {VM_FAULT_READ, VM_FAULT_WRITE}, fa \in WideFaultAddrs, i \in TlbSlots :
          VmFault(t, fa, i, 2)
    \/ \E a \in ASIds : AsDestroy(a)
    \/ \E p \in {0, 1} : ProcSwitch(p)

SpecIndex == Init /\ [][NextIndex]_vars

\* The rest of the kernel changes the interrupt priority level between calls:
\* a trap handler runs with interrupts on, a thread switch with them off.
Spl(s) ==
    /\ s # ipl
    /\ ipl' = s
    /\ ev' = Ev("spl", 0)
    /\ UNCHANGED <<spaces, cur, frames, mem, kheap, tlb, loading>>

\* SpecSpl: one process faults, with every failure, and ends a load, at either
\* interrupt priority level.
NextSpl ==
    \/ Live = {} /\ AsCreate(2)
    \/ \E a \in Room(MaxForkRegions) \cap {cur}, d \in DefineInputs :
          AsDefineRegion(a, d.vaddr, d.memsize, d.r, d.w, d.x, 1)
    \/ \E a \in {cur} : AsCompleteLoad(a)
    \/ AsCompleteLoadNull
    \/ \E t \in FaultTypes, fa \in FaultAddrs, i \in TlbSlots :
          \E b \in 0..FaultAllocs(t, fa) : VmFault(t, fa, i, b)
    \/ \E a \in ASIds : AsDestroy(a)
    \/ \E p \in {0, 1} : ProcSwitch(p)
    \/ AsActivate
    \/ AsDeactivate
    \/ \E s \in {0, IPL_HIGH} : Spl(s)

SpecSpl == Init /\ [][NextSpl]_vars

\* as_define_region calls for the page 0x00400000 with permission arguments
\* that are and that are not the ELF bit values
PermInputs ==
    { [vaddr |-> W(1024, 0), memsize |-> W(1, 0), r |-> r, w |-> w, x |-> x] :
        r \in {0, PF_R, 2}, w \in {0, 1, PF_W}, x \in {0, PF_X} }

\* SpecPerm: one process defines one region, with any permission arguments,
\* and faults on it.  An allocation fails only when no frame is free.
NextPerm ==
    \/ Live = {} /\ AsCreate(2)
    \/ \E a \in Room(MaxForkRegions) \cap {cur}, d \in PermInputs :
          AsDefineRegion(a, d.vaddr, d.memsize, d.r, d.w, d.x, 1)
    \/ \E t \in {VM_FAULT_READ, VM_FAULT_WRITE}, fa \in FaultAddrs \ {Zero32}, i \in TlbSlots :
          VmFault(t, fa, i, 2)
    \/ \E a \in ASIds : AsDestroy(a)
    \/ \E p \in {0, 1} : ProcSwitch(p)

SpecPerm == Init /\ [][NextPerm]_vars

\* A context switch that deactivates first: as_deactivate() runs for the
\* outgoing process, p becomes the running one, as_activate() runs for it.
ContextSwitch(p) ==
    /\ p \in Live \cup {0}
    /\ p # cur
    /\ cur' = p
    /\ tlb' = as_activate(p, as_deactivate(proc_getas, tlb))
    /\ ipl' = as_activate_spl(p, as_deactivate_spl(proc_getas, K0(0), Cardinality(DOMAIN tlb)),
                              Cardinality(DOMAIN tlb)).ipl
    /\ ev' = Ev("switch", 0)
    /\ UNCHANGED <<spaces, frames, mem, kheap, loading>>

\* SpecSwitch: processes run, load, fork and exit, every switch deactivates
\* the outgoing address space, and any allocation of as_copy may fail.
NextSwitch ==
    \/ Live = {} /\ AsCreate(2)
    \/ \E a \in Room(MaxForkRegions) \cap {cur}, d \in DefineInputs :
          AsDefineRegion(a, d.vaddr, d.memsize, d.r, d.w, d.x, 1)
    \/ \E a \in Live \cap {cur} : AsCompleteLoad(a)
    \/ \E t \in {VM_FAULT_READ, VM_FAULT_WRITE}, fa \in FaultAddrs \ {Zero32}, i \in TlbSlots :
          VmFault(t, fa, i, 2)
    \/ \E a \in Live \cap {cur} :
          /\ Dead # {}
          /\ \E b \in 0..CopyAllocs(a) :
                \E j \in JunkNow(a, b), g \in StaleNow(a) : AsCopy(a, b, j, g)
    \/ \E a \in ASIds : AsDestroy(a)
    \/ \E p \in ASIds \cup {0} : ContextSwitch(p)

SpecSwitch == Init /\ [][NextSwitch]_vars

\* as_define_region calls over the 32-bit range: addresses 0, 0x00400000,
\* 0x00400abc, 0x7ffff000, 0xfffff000, 0xffffffff and sizes 0, 1, 0x1000,
\* 0x2000, 0xffffffff
WideVaddrs ==
    {Zero32, W(1024, 0), W(1024, 2748), W(KSEG0_PAGE - 1, 0),
     W(PAGE_COUNT - 1, 0), W(PAGE_COUNT - 1, PAGE_SIZE - 1)}
WideSizes == {Zero32, W(0, 1), W(1, 0), W(2, 0), W(PAGE_COUNT - 1, PAGE_SIZE - 1)}

\* SpecDefine: one process defines regions anywhere in the 32-bit range.
NextDefine ==
    \/ Live = {} /\ \E b \in 0..2 : AsCreate(b)
    \/ \E a \in Room(MaxRegions), v \in WideVaddrs, n \in WideSizes, w \in {0, PF_W}, b \in 0..1 :
          AsDefineRegion(a, v, n, PF_R, w, 0, b)
    \/ \E a \in ASIds : AsDestroy(a)
    \/ \E p \in ASIds \cup {0} : ProcSwitch(p)

SpecDefine == Init /\ [][NextDefine]_vars

----------------------------------------------------------------------------
(* Properties *)

\* the populated entries of address space a: <<msb, lsb>> pairs
Entries(a) ==
    {x \in L1Idx \X L2Idx :
        /\ spaces[a].pagetable[x[1]] # NullL2
        /\ spaces[a].pagetable[x[1]][x[2]] # 0}
EntriesNext(a) ==
    {x \in L1Idx \X L2Idx :
        /\ spaces'[a].pagetable[x[1]] # NullL2
        /\ spaces'[a].pagetable[x[1]][x[2]] # 0}
Pte(a, x) == spaces[a].pagetable[x[1]][x[2]]
PteNext(a, x) == spaces'[a].pagetable[x[1]][x[2]]
Pfn(e) == e \div PAGE_SIZE

\* C1: every non-zero page-table entry of a live address space names a frame
\* that is allocated and that no other entry of a live address space names.
C1_FramesOwnedAlone ==
    \A a \in Live : \A x \in Entries(a) :
        /\ Pfn(Pte(a, x)) \in frames
        /\ \A b \in Live : \A y \in Entries(b) :
              (b # a \/ y # x) => Pfn(Pte(b, y)) # Pfn(Pte(a, x))

\* C2: an as_copy that fails returns ENOMEM, sets no new address space, leaves
\* allocated exactly the frames and kernel blocks that were allocated before
\* the call, and leaves every address space as it was.
C2_FailedCopyUndone ==
    [][(ev'.op = "as_copy" /\ ev'.res # 0) =>
          /\ ev'.res = ENOMEM
          /\ spaces' = spaces
          /\ frames' = frames
          /\ kheap' = kheap]_vars

\* what C3 says of a copy step from old to the new address space n
CopyFaithful(old, n) ==
    /\ EntriesNext(n) = Entries(old)
    /\ \A x \in Entries(old) :
          /\ Pfn(PteNext(n, x)) # Pfn(Pte(old, x))
          /\ mem'[Pfn(PteNext(n, x))] = mem[Pfn(Pte(old, x))]
          /\ PteNext(n, x) % PAGE_SIZE = Pte(old, x) % PAGE_SIZE
          /\ mem'[Pfn(Pte(old, x))] = mem[Pfn(Pte(old, x))]
    /\ spaces'[old] = spaces[old]

\* C3: a successful as_copy gives the new address space an entry exactly where
\* the old one has one, in a different frame with equal contents and equal
\* DIRTY and VALID bits, and leaves the old address space and its frames
\* unchanged.
C3_CopyFaithful ==
    [][(ev'.op = "as_copy" /\ ev'.res = 0) =>
          \A old \in Live, g \in 0..MaxData :
              AsCopy(old, MaxAllocs, 0, g) => CopyFaithful(old, FirstDead)]_vars

\* C4: as_destroy(a) frees each frame a's page table names once and no frame
\* that was not allocated, frees a's L2 arrays, L1 root, region nodes and
\* record, frees no frame another live address space names and leaves the other
\* address spaces as they were; when no address space is left no frame is
\* outstanding.
C4_DestroyExact ==
    [][(ev'.op = "as_destroy") =>
          \A a \in Live : AsDestroy(a) =>
              LET k == as_destroy(spaces[a], K0(0))
                  mine == {Pfn(Pte(a, x)) : x \in Entries(a)}
                  l2s == Cardinality({m \in L1Idx : spaces[a].pagetable[m] # NullL2})
              IN  /\ k.bad = {}
                  /\ k.freed = mine
                  /\ Cardinality(mine) = Cardinality(Entries(a))
                  /\ kheap' = [kheap EXCEPT !.as = @ - 1, !.l1 = @ - 1, !.l2 = @ - l2s,
                                            !.region = @ - Len(spaces[a].regions)]
                  /\ \A b \in Live \ {a} :
                        /\ spaces'[b] = spaces[b]
                        /\ \A y \in Entries(b) :
                              /\ Pfn(Pte(b, y)) \notin k.freed
                              /\ mem'[Pfn(Pte(b, y))] = mem[Pfn(Pte(b, y))]
                  /\ (Live = {a} => frames' = {})]_vars

\* the sum of two words without wrap-around, and the order of such sums
AddWide(a, b) ==
    [pg |-> a.pg + b.pg + ((a.off + b.off) \div PAGE_SIZE), off |-> (a.off + b.off) % PAGE_SIZE]
LeWide(a, b) == a.pg < b.pg \/ (a.pg = b.pg /\ a.off <= b.off)

\* the regions of address space a that hold address fa
Holding(a, fa) ==
    {i \in DOMAIN spaces[a].regions :
        LET r == spaces[a].regions[i]
        IN  /\ LeWide(r.as_vbase, AndPageFrame(fa))
            /\ ~LeWide(AddWide(r.as_vbase, r.size), AndPageFrame(fa))}
\* the first of them in list order, 0 when there is none
FirstHolding(a, fa) ==
    IF Holding(a, fa) = {} THEN 0
    ELSE CHOOSE i \in Holding(a, fa) : \A j \in Holding(a, fa) : i <= j
HasW(r) == BitAnd(r.flags, PF_W) = PF_W

\* C5: once as_complete_load has ended a load, a WRITE fault at an address
\* whose regions all lack write permission returns EFAULT and writes no TLB
\* entry, also on a page that a WRITE fault installed during the load.
C5_ReadOnlyAfterLoad ==
    [][(ev'.op = "vm_fault" /\ cur > 0) =>
          \A fa \in FaultAddrs \ {Zero32}, i \in TlbSlots :
              ( /\ loading[cur].phase = "done"
                /\ Holding(cur, fa) # {}
                /\ \A r \in Holding(cur, fa) : ~HasW(spaces[cur].regions[r])
                /\ VmFault(VM_FAULT_WRITE, fa, i, 2) )
              => (ev'.res = EFAULT /\ tlb' = tlb)]_vars

\* C6: a vm_fault that returns an error leaves the TLB as it was, and no
\* vm_fault changes the regions of any address space.
C6_FaultErrorLeavesTlb ==
    [][(ev'.op = "vm_fault") =>
          /\ (ev'.res # 0 => tlb' = tlb)
          /\ \A a \in ASIds : spaces'[a].regions = spaces[a].regions]_vars

\* C6 witness: a vm_fault has just failed with ENOMEM while the TLB holds a
\* valid entry of the address space, which has a region.
C6_Witness ==
    /\ ev = Ev("vm_fault", ENOMEM)
    /\ cur > 0
    /\ spaces[cur].regions # <<>>
    /\ \E i \in TlbSlots : BitAnd(tlb[i].lo, TLBLO_VALID) = TLBLO_VALID

\* C7: a vm_fault that returns an error leaves the page tables, the allocated
\* frames and the allocated kernel blocks as they were.
C7_FaultErrorLeavesTable ==
    [][(ev'.op = "vm_fault" /\ ev'.res # 0) =>
          /\ \A a \in ASIds : spaces'[a].pagetable = spaces[a].pagetable
          /\ frames' = frames
          /\ kheap' = kheap]_vars

\* the steps in which as_define_region(a, v, n, ...) returned 0
DefineStep(a, v, n) ==
    /\ ev'.res = 0
    /\ \E w \in {0, PF_W} : AsDefineRegion(a, v, n, PF_R, w, 0, 1)

\* C8: the region a successful as_define_region(v, n) stores has a page-aligned
\* vbase <= v, a page-aligned size >= n, and holds [v, v+n).
C8_RegionCoversRequest ==
    [][(ev'.op = "as_define_region") =>
          \A a \in Live, v \in WideVaddrs, n \in WideSizes :
              DefineStep(a, v, n) =>
                  LET r == spaces'[a].regions[1]
                  IN  /\ r.as_vbase.off = 0
                      /\ LeWide(r.as_vbase, v)
                      /\ r.size.off = 0
                      /\ LeWide(n, r.size)
                      /\ LeWide(AddWide(v, n), AddWide(r.as_vbase, r.size))]_vars

\* C9: the region a successful as_define_region stores has size > 0 and ends,
\* without wrap-around, at or below USERSTACK.
C9_RegionInUserRange ==
    [][(ev'.op = "as_define_region") =>
          \A a \in Live, v \in WideVaddrs, n \in WideSizes :
              DefineStep(a, v, n) =>
                  LET r == spaces'[a].regions[1]
                  IN  /\ r.size # Zero32
                      /\ LeWide(AddWide(r.as_vbase, r.size), USERSTACK)]_vars

\* C10: as_prepare_load saves each region's flags and sets them to PF_R|PF_W;
\* the as_complete_load that ends the load gives every region that existed at
\* as_prepare_load the flags it had then, whatever vm_fault, as_define_region
\* and as_copy did in between.
C10_LoadRestoresFlags ==
    [][\A a \in Live :
          /\ (ev'.op = "as_prepare_load" /\ AsPrepareLoad(a)) =>
                \A i \in DOMAIN spaces[a].regions :
                    /\ spaces'[a].regions[i].flags = BitOr(PF_R, PF_W)
                    /\ spaces'[a].regions[i].og_flags = spaces[a].regions[i].flags
          /\ (ev'.op = "as_complete_load" /\ loading[a].phase = "loading" /\ AsCompleteLoad(a)) =>
                LET snap == loading[a].snap
                    added == Len(spaces[a].regions) - Len(snap)
                IN  /\ added >= 0
                    /\ Len(spaces'[a].regions) = Len(spaces[a].regions)
                    /\ \A i \in DOMAIN snap : spaces'[a].regions[added + i].flags = snap[i]]_vars

\* C10 witness: as_complete_load has just ended a load during which a region
\* was added, and restored a region that is not writable although a fault
\* installed a writable page while the load was on; the process has forked.
C10_Witness ==
    /\ ev = Ev("as_complete_load", 0)
    /\ cur > 0
    /\ loading[cur].phase = "done"
    /\ \E x \in Entries(cur) : BitAnd(Pte(cur, x), TLBLO_DIRTY) = TLBLO_DIRTY
    /\ Len(spaces[cur].regions) = 2
    /\ Len(loading[cur].snap) = 1
    /\ ~HasW(spaces[cur].regions[2])
    /\ Live = ASIds

\* C11: when the current process has an address space, as_activate and
\* as_deactivate leave every TLB slot invalid with pairwise distinct tags,
\* a second as_activate changes nothing, and as_deactivate does to the TLB
\* what as_activate does.
C11_ActivateFlushes ==
    [][(ev'.op \in {"as_activate", "as_deactivate"} /\ cur > 0) =>
          /\ \A i \in DOMAIN tlb' : BitAnd(tlb'[i].lo, TLBLO_VALID) = 0
          /\ \A i, j \in DOMAIN tlb' : i # j => tlb'[i].hi # tlb'[j].hi
          /\ as_activate(proc_getas, tlb') = tlb'
          /\ as_deactivate(proc_getas, tlb) = as_activate(proc_getas, tlb)
          /\ tlb' = as_activate(proc_getas, tlb)]_vars

\* C11 witness: as_deactivate has just flushed a TLB of more than one slot for
\* a process that has resident pages.
C11_Witness ==
    /\ ev = Ev("as_deactivate", 0)
    /\ cur > 0
    /\ Entries(cur) # {}
    /\ Cardinality(DOMAIN tlb) > 1
    /\ \A i \in DOMAIN tlb : tlb[i].lo = TLBLO_INVALID

\* a WRITE fault at fa that vm_fault refuses because of the regions: the page
\* has no entry and fa is in no region, or the first region holding it is not
\* writable
RegionRefuses(fa) ==
    /\ cur > 0
    /\ fa # Zero32
    /\ ~pte_exists(spaces[cur].pagetable, Shr21(AndPageFrame(fa)), Shr23(Shl11(AndPageFrame(fa))))
    /\ LET curr == FirstHolding(cur, fa)
       IN  curr = 0 \/ ~HasW(spaces[cur].regions[curr])

\* C12: the value vm_fault returns for a READONLY fault is an error that differs
\* from the value it returns for an address in no region or a WRITE to a region
\* that is not writable, from EINVAL and from ENOMEM.
C12_ReadonlyKindDistinct ==
    [][(ev'.op = "vm_fault") =>
          \A fa \in FaultAddrs, i \in DOMAIN tlb :
              VmFault(VM_FAULT_READONLY, fa, i, 2) =>
                  /\ ev'.res \notin {0, EINVAL, ENOMEM}
                  /\ \A fb \in FaultAddrs :
                        RegionRefuses(fb) =>
                            vm_fault(VM_FAULT_WRITE, fb, i, K0(2)).res # ev'.res]_vars

\* the first region of the current address space that holds fa permits a
\* fault of type t
Permits(t, fa) ==
    /\ cur > 0
    /\ fa # Zero32
    /\ t \in {VM_FAULT_READ, VM_FAULT_WRITE}
    /\ LET curr == FirstHolding(cur, fa)
       IN  curr # 0 /\ (t = VM_FAULT_WRITE => HasW(spaces[cur].regions[curr]))

\* what a successful fault at fa does: one TLB entry <<page of fa, entry>>
\* written; a present entry is kept and nothing is allocated; an absent one
\* becomes PFN | DIRTY | VALID of one newly allocated zeroed frame, DIRTY set
\* exactly when the region is writable
FaultInstalls(fa) ==
    LET page == AndPageFrame(fa)
        x == <<Shr21(page), Shr23(Shl11(page))>>
        curr == FirstHolding(cur, fa)
    IN  /\ x \in EntriesNext(cur)
        /\ \E s \in DOMAIN tlb :
              tlb' = [tlb EXCEPT ![s] = [hi |-> page, lo |-> PteNext(cur, x)]]
        /\ x \in Entries(cur) =>
              /\ frames' = frames
              /\ spaces' = spaces
        /\ x \notin Entries(cur) =>
              \E f \in FramePool \ frames :
                  /\ frames' = frames \cup {f}
                  /\ mem'[f] = 0
                  /\ PteNext(cur, x) =
                        f * PAGE_SIZE
                        + (IF HasW(spaces[cur].regions[curr]) THEN TLBLO_DIRTY ELSE 0)
                        + TLBLO_VALID
                  /\ EntriesNext(cur) = Entries(cur) \cup {x}

\* C13 as stated: a READ or WRITE fault that the region permits returns 0 and
\* installs as FaultInstalls says.
C13_PermittedFaultSucceeds ==
    [][(ev'.op = "vm_fault") =>
          \A t \in {VM_FAULT_READ, VM_FAULT_WRITE}, fa \in FaultAddrs, i \in DOMAIN tlb, b \in 0..2 :
              (Permits(t, fa) /\ VmFault(t, fa, i, b)) =>
                  (ev'.res = 0 /\ FaultInstalls(fa))]_vars

\* C13, amended: a READ or WRITE fault that the region permits returns 0 and
\* installs as FaultInstalls says, unless the page has no entry and an
\* allocation the install needs is refused; then it returns ENOMEM, allocates
\* no frame and writes no TLB entry.
C13_PermittedFaultSucceedsOrNoMem ==
    [][(ev'.op = "vm_fault") =>
          \A t \in {VM_FAULT_READ, VM_FAULT_WRITE}, fa \in FaultAddrs, i \in DOMAIN tlb, b \in 0..2 :
              (Permits(t, fa) /\ VmFault(t, fa, i, b)) =>
                  LET page == AndPageFrame(fa)
                      x == <<Shr21(page), Shr23(Shl11(page))>>
                      refused == b < FaultAllocs(t, fa) \/ frames = FramePool
                  IN  IF x \notin Entries(cur) /\ refused
                      THEN ev'.res = ENOMEM /\ frames' = frames /\ tlb' = tlb
                      ELSE ev'.res = 0 /\ FaultInstalls(fa)]_vars

\* C13 witness: a READ fault has just installed a page of a region that is not
\* writable, and the TLB holds its entry, without DIRTY.
C13_Witness ==
    /\ ev = Ev("vm_fault", 0)
    /\ cur > 0
    /\ \E s \in DOMAIN tlb : \E x \in Entries(cur) :
          /\ tlb[s].lo = Pte(cur, x)
          /\ tlb[s].hi = W(x[1] * 512 + x[2], 0)
          /\ BitAnd(tlb[s].lo, TLBLO_DIRTY) = 0
          /\ mem[Pfn(Pte(cur, x))] = 0

\* the page of entry x of a page table, as an address
PageOf(x) == W(x[1] * L2_PT_SIZE + x[2], 0)

\* every page-table entry of a live address space is for a page inside one of
\* its regions
EntriesInRegions ==
    \A a \in Live : \A x \in Entries(a) : Holding(a, PageOf(x)) # {}

\* a READ or WRITE fault at fa, on a page without entry, that the regions
\* refuse: fa is in no region, or the fault is a WRITE and the region holding
\* fa is not writable
Refused(t, fa) ==
    /\ RegionRefuses(fa)
    /\ t = VM_FAULT_WRITE \/ (t = VM_FAULT_READ /\ Holding(cur, fa) = {})

\* C14: a READ or WRITE fault on a page without entry returns EFAULT, allocates
\* nothing and writes no TLB entry when the address is in no region, or when
\* the fault is a WRITE and the region is not writable; and page-table entries
\* exist only for pages inside a region.
C14_NoEntryOutsideRegions ==
    [][/\ (ev'.op = "vm_fault") =>
             \A t \in {VM_FAULT_READ, VM_FAULT_WRITE}, fa \in FaultAddrs, i \in DOMAIN tlb, b \in 0..2 :
                 (Refused(t, fa) /\ VmFault(t, fa, i, b)) =>
                     /\ ev'.res = EFAULT
                     /\ frames' = frames
                     /\ kheap' = kheap
                     /\ spaces' = spaces
                     /\ tlb' = tlb
       /\ EntriesInRegions']_vars

\* C14 witness: a fault has just been refused with EFAULT in an address space
\* that has a region, a resident page and a page without entry.
C14_Witness ==
    /\ ev = Ev("vm_fault", EFAULT)
    /\ cur > 0
    /\ spaces[cur].regions # <<>>
    /\ Entries(cur) # {}
    /\ \E fa \in FaultAddrs : RegionRefuses(fa)

\* C15: as_define_region puts the new region first; a fault on a page without
\* entry that several regions hold is allowed, and its entry made DIRTY, as
\* the first of them in list order says; and a successful as_copy gives the copy
\* the source's regions in the source's order, so that the rule gives the copy
\* what it gives the source.
C15_FirstRegionDecides ==
    [][/\ (ev'.op = "as_define_region" /\ ev'.res = 0) =>
             \A a \in Live :
                 spaces'[a].regions # spaces[a].regions =>
                     /\ Tail(spaces'[a].regions) = spaces[a].regions
                     /\ \A b \in Live \ {a} : spaces'[b].regions = spaces[b].regions
       /\ (ev'.op = "vm_fault" /\ cur > 0) =>
             \A t \in {VM_FAULT_READ, VM_FAULT_WRITE}, fa \in FaultAddrs \ {Zero32}, i \in DOMAIN tlb :
                 LET page == AndPageFrame(fa)
                     x == <<Shr21(page), Shr23(Shl11(page))>>
                     first == FirstHolding(cur, fa)
                 IN  ( /\ Cardinality(Holding(cur, fa)) > 1
                       /\ x \notin Entries(cur)
                       /\ frames # FramePool
                       /\ VmFault(t, fa, i, 2) )
                     => LET w == HasW(spaces[cur].regions[first])
                        IN  IF t = VM_FAULT_WRITE /\ ~w
                            THEN ev'.res = EFAULT /\ spaces' = spaces
                            ELSE /\ ev'.res = 0
                                 /\ x \in EntriesNext(cur)
                                 /\ (BitAnd(PteNext(cur, x), TLBLO_DIRTY) = TLBLO_DIRTY) <=> w
       /\ (ev'.op = "as_copy" /\ ev'.res = 0) =>
             \A old \in Live, g \in 0..MaxData :
                 AsCopy(old, MaxAllocs, 0, g) =>
                     spaces'[FirstDead].regions = spaces[old].regions]_vars

\* C15 witness: a WRITE fault has just been refused in one of two address
\* spaces, one a copy of the other, with the same two overlapping regions, the
\* first not writable and the second writable.
C15_Witness ==
    /\ ev = Ev("vm_fault", EFAULT)
    /\ cur = 2
    /\ Live = {1, 2}
    /\ spaces[1].regions = spaces[2].regions
    /\ Len(spaces[2].regions) = 2
    /\ \E fa \in FaultAddrs : Holding(2, fa) = {1, 2}
    /\ ~HasW(spaces[2].regions[1])
    /\ HasW(spaces[2].regions[2])

\* the indexes vm_fault computes from a fault address
MsbOf(a) == Shr21(AndPageFrame(a))
LsbOf(a) == Shr23(Shl11(AndPageFrame(a)))

\* C16: for a fault address a, msb is below L1_PT_SIZE, lsb is (a >> 12) & 0x1FF
\* and below L2_PT_SIZE, the KASSERT of create_pt_l2 holds, and another address
\* gives the same indexes exactly when it is in the same page.
C16_IndexesInRange ==
    [][(ev'.op = "vm_fault") =>
          \A t \in {VM_FAULT_READ, VM_FAULT_WRITE}, a \in WideFaultAddrs, i \in DOMAIN tlb :
              VmFault(t, a, i, 2) =>
                  /\ MsbOf(a) \in 0..(L1_PT_SIZE - 1)
                  /\ LsbOf(a) = a.pg % L2_PT_SIZE
                  /\ LsbOf(a) \in 0..(L2_PT_SIZE - 1)
                  /\ a.pg = MsbOf(a) * L2_PT_SIZE + LsbOf(a)
                  /\ kassert_msb(MsbOf(a))
                  /\ \A b \in WideFaultAddrs :
                        (MsbOf(b) = MsbOf(a) /\ LsbOf(b) = LsbOf(a)) <=> (b.pg = a.pg)]_vars

\* C16 witness: a fault at the last byte of page 0x401 has just installed the
\* entry of that page: slot 2 of the L1 table, slot 1 of its L2 array.
C16_Witness ==
    /\ ev = Ev("vm_fault", 0)
    /\ cur > 0
    /\ <<2, 1>> \in Entries(cur)
    /\ \E s \in DOMAIN tlb : tlb[s] = [hi |-> W(1025, 0), lo |-> Pte(cur, <<2, 1>>)]

\* every TLB write of the log was made at IPL_HIGH
TlbWritesRaised(log) ==
    \A i \in DOMAIN log : log[i].what = "tlb" => log[i].ipl = IPL_HIGH

\* no page-table update of the log comes after a TLB write
TableBeforeTlb(log) ==
    \A i, j \in DOMAIN log : (log[i].what = "tlb" /\ log[j].what = "pt") => j < i

TlbWritesOf(log) == Cardinality({i \in DOMAIN log : log[i].what = "tlb"})

\* C17: vm_fault, as_activate, as_deactivate and as_complete_load return at
\* the interrupt priority level they were entered at, on every path; each of
\* their TLB writes is made at IPL_HIGH; vm_fault updates the page table
\* before it writes the TLB.
C17_SplBracket ==
    [][/\ (ev'.op = "vm_fault") =>
            /\ ipl' = ipl
            /\ \A t \in FaultTypes, fa \in FaultAddrs, i \in DOMAIN tlb, b \in 0..2 :
                  VmFault(t, fa, i, b) =>
                      LET r == vm_fault(t, fa, i, K0(b))
                      IN  /\ TlbWritesRaised(r.k.log)
                          /\ TableBeforeTlb(r.k.log)
                          /\ TlbWritesOf(r.k.log) = (IF r.res = 0 THEN 1 ELSE 0)
                          /\ r.k.ipl = ipl
       /\ (ev'.op \in {"as_activate", "as_deactivate", "as_complete_load"}) =>
            /\ ipl' = ipl
            /\ LET n == Cardinality(DOMAIN tlb)
                   k == as_activate_spl(proc_getas, K0(0), n)
               IN  /\ TlbWritesRaised(k.log)
                   /\ (ev'.res = 0 /\ cur > 0) => TlbWritesOf(k.log) = n
                   /\ k.ipl = ipl]_vars

\* C17 witness: entered with interrupts on, vm_fault has created an entry,
\* loaded it in the TLB and returned with interrupts on again.
C17_Witness ==
    /\ ev = Ev("vm_fault", 0)
    /\ ipl = 0
    /\ cur > 0
    /\ \E x \in Entries(cur), s \in DOMAIN tlb : tlb[s].lo = Pte(cur, x)

\* a WRITE fault at 0x00400010, taken in the state as it is
WriteFaultNow == vm_fault(VM_FAULT_WRITE, W(1024, 16), 0, K0(2))

\* C18: once the current process has defined its first region with a non-zero
\* writeable argument, a WRITE fault on a page of it succeeds and loads a DIRTY
\* entry; with writeable = 0 the fault is refused; whatever the values of the
\* three permission arguments.
C18_WriteableArgumentDecides ==
    [][(ev'.op = "as_define_region" /\ ev'.res = 0) =>
          \A d \in PermInputs :
              (/\ cur > 0
               /\ spaces[cur].regions = <<>>
               /\ AsDefineRegion(cur, d.vaddr, d.memsize, d.r, d.w, d.x, 1)) =>
                  /\ d.w # 0 =>
                        /\ WriteFaultNow'.res = 0
                        /\ BitAnd(WriteFaultNow'.tlb[0].lo, TLBLO_DIRTY) = TLBLO_DIRTY
                  /\ d.w = 0 => WriteFaultNow'.res = EFAULT]_vars

\* the entry the page table of address space a holds for the page of hi (0: none)
PteFor(a, hi) ==
    LET msb == Shr21(hi)
        lsb == Shr23(Shl11(hi))
    IN  IF pte_exists(spaces[a].pagetable, msb, lsb)
        THEN spaces[a].pagetable[msb][lsb] ELSE 0

\* C19: every valid TLB entry is the page-table entry the current process's
\* address space holds for that page, so it names a frame that is allocated
\* and is that address space's.
C19_TlbCoherent ==
    \A s \in DOMAIN tlb :
        BitAnd(tlb[s].lo, TLBLO_VALID) = TLBLO_VALID =>
            /\ cur > 0
            /\ spaces[cur].live
            /\ PteFor(cur, tlb[s].hi) = tlb[s].lo
            /\ Pfn(tlb[s].lo) \in frames

\* the region an as_define_region call with the arguments d makes
DefinedRegion(d) ==
    as_define_region(DeadAS, d.vaddr, d.memsize, d.r, d.w, d.x, K0(1)).as.regions[1]

\* region r has the flags as_define_region gave it
HasDefinedFlags(r) ==
    \E d \in DefineInputs :
        /\ DefinedRegion(d).as_vbase = r.as_vbase
        /\ DefinedRegion(d).size = r.size
        /\ DefinedRegion(d).flags = r.flags

\* C20: when as_complete_load has returned, every region of the address space
\* has the flags as_define_region gave it, however many as_prepare_load and
\* as_complete_load calls came before.
C20_CompleteLoadGivesDefinedFlags ==
    (ev = Ev("as_complete_load", 0) /\ cur > 0) =>
        \A i \in DOMAIN spaces[cur].regions : HasDefinedFlags(spaces[cur].regions[i])

====
